---- MODULE Spec2Model ----
(***************************************************************************)
(* globeClock: the reverse time-lookup search (src/src/ui.js), the         *)
(* asynchronous dataset load and the fly-to animation of the globe         *)
(* (src/unnamed/part_003 = globe.js), the time helpers and the ephemeris   *)
(* (src/unnamed/part_002 = utils.js) and the CSV ingestion script          *)
(* (src/unnamed/part_000).                                                 *)
(*                                                                         *)
(* Specifications: Spec (load, hover, clock loop, search), SpecGlobe and   *)
(* SpecGlobeFair (searches, animation frames, restore timer), SpecConvert  *)
(* (ingestion), SpecNorm (range corrections), SpecEph (day count, angles). *)
(*                                                                         *)
(* Units.  The code computes with IEEE doubles; the model computes with    *)
(* exact integers on a scale on which every quantity it needs is whole:    *)
(*   - times of day are minutes (the code's hours times 60);               *)
(*   - angles of the search are quarter-degrees (the code's degrees times  *)
(*     4), so that lon/15 hours is exactly lon minutes;                    *)
(*   - angles of the ephemeris normalisations are whole degrees;           *)
(*   - the mean angles of the ephemeris are exact decimals.                *)
(***************************************************************************)
EXTENDS Integers, Sequences, FiniteSets, TLC

(* ---------------------------------------------------------------- bounds *)
MaxCities == 2      \* longest dataset the server sends
MaxLines == 2       \* data lines of the CSV file (after the header)
AngleStep == 30     \* spacing in degrees of the angles the normalisations are tried on
MaxDays == 30       \* the ephemeris is tried at instants this many days around J2000
MaxTimers == 2      \* restore timers one behaviour of the globe may set

(* ------------------------------------------------------------- constants *)
Infinity == 1000000     \* let minDiff = Infinity
MatchWindow == 30       \* minDiff <= 30
DayMinutes == 1440      \* 24 h, the code's 24 (hours) on the minute scale
HalfDay == 720          \* 720 minutes; also 180 degrees in quarter-degrees
AnimationDuration == 2000   \* this.animationDuration = 2000 (ms)
RestoreDelay == 5000        \* setTimeout(..., 5000) of scheduleAutoRotateRestore

Deg(d) == 4 * d         \* degrees -> quarter-degrees
Abs(x) == IF x < 0 THEN -x ELSE x
Min(a, b) == IF a < b THEN a ELSE b

(* ------------------------------------------------------- option values *)
\* null / undefined / "" is None, anything else Some(x).
None == <<>>
Some(x) == <<x>>
IsSome(o) == Len(o) = 1
Val(o) == o[1]

(* ------------------------------------------------------------ input sets *)
\* IANA zones the runtime's timezone database knows, with their UTC offset
\* in minutes (the external collaborator behind toLocaleTimeString).
KnownZones == {"UTC", "Asia/Tokyo", "Etc/GMT+12"}
ZoneOffset(tz) ==
    CASE tz = "UTC" -> 0
      [] tz = "Asia/Tokyo" -> 540
      [] tz = "Etc/GMT+12" -> -720
      [] OTHER -> 0

\* Location records of cities.json: {name, lat, lon, timezone}; lat and lon
\* in quarter-degrees.
City(n, la, lo, tz) == [name |-> n, lat |-> la, lon |-> lo, timezone |-> tz]
CityPool ==
    { City("CityA", Deg(51), Deg(0), "UTC"),
      City("CityB", Deg(-17), Deg(180), "Asia/Tokyo"),
      City("CityC", Deg(35), Deg(10), "Mars/Phobos"),
      City("CityD", Deg(64), Deg(-180), "Etc/GMT+12") }

RECURSIVE SeqsUpTo(_, _)
SeqsUpTo(S, n) ==
    IF n = 0 THEN { <<>> }
    ELSE LET shorter == SeqsUpTo(S, n - 1)
         IN  shorter \cup { Append(s, x) : s \in shorter, x \in S }

Datasets == SeqsUpTo(CityPool, MaxCities)

\* UTC minutes of day the behaviour can start at, and the <<h, m>> values of
\* the time input.
StartTimes == {0, 720}
\* The minutes the modelled clock can move on from (one minute boundary).
TickFrom == StartTimes
TimeInputs == { <<0, 0>>, <<0, 5>>, <<6, 0>>, <<12, 0>>, <<12, 20>>,
                <<12, 30>>, <<12, 31>> }

(* ------------------------------------------------------------- variables *)
VARIABLES
    now,                \* the wall clock: UTC minute of the day
    loadState,          \* Globe.init: "fetching" | "loaded" | "failed"
    allCities,          \* globe.allCities: None until assigned
    panelHidden,        \* infoPanel has class 'hidden'
    cityEl, timeEl, metaEl,     \* text of the info panel
    currentCity,        \* ui.currentCity
    toast,              \* the toast shown last
    lastPin,            \* where the newest temporary pin stands, None before any
    autoRotate,         \* controls.autoRotate
    isAnimating,        \* globe.isAnimating
    autoRotateRestorer, \* globe.autoRotateRestorer: 0 (null) or a timer id
    restoreTimers,      \* the restore timers still pending: <<id, ms left>>
    nextTimerId,        \* the id the next setTimeout returns
    animElapsed,        \* Date.now() - animationStartTime, up to animationDuration
    targetPosition,     \* globe.targetPosition as <<lat, lon>>
    uncaught,           \* the last handler ended in an uncaught exception
    lastSearch,         \* what the last handleSearch read and computed
    csvLines, lineIdx, cities, convState,   \* the ingestion script
    normIn, normOut,    \* the ephemeris normalisations
    ephIn, ephOut       \* the instant an ephemeris call read, and what it computed

uiVars == <<panelHidden, cityEl, timeEl, metaEl, currentCity>>
globeVars == <<autoRotate, isAnimating, autoRotateRestorer, restoreTimers,
               nextTimerId, animElapsed, targetPosition>>
convVars == <<csvLines, lineIdx, cities, convState>>
ephVars == <<ephIn, ephOut>>
normVars == <<normIn, normOut, ephVars>>
vars == <<now, loadState, allCities, uiVars, toast, lastPin, globeVars,
          uncaught, lastSearch, convVars, normVars>>

(* ------------------------------------------------- utils.js: getLocalTime *)
\* "HH:MM:SS" as <<hh, mm>> (the model's clock has no seconds).
FormatTime(m) == <<m \div 60, m % 60>>
SentinelTime == <<0, 0>>        \* "00:00:00"

\* Date.prototype.toLocaleTimeString with a timeZone option: a RangeError
\* for a zone the database does not know.
toLocaleTimeString(tz, t) ==
    IF tz \in KnownZones
    THEN [threw |-> FALSE, value |-> FormatTime((t + ZoneOffset(tz)) % DayMinutes)]
    ELSE [threw |-> TRUE, value |-> <<>>]

getLocalTimeNoCatch(timezone, t) == toLocaleTimeString(timezone, t)

getLocalTime(timezone, t) ==
    LET r == toLocaleTimeString(timezone, t)
    IN  IF r.threw THEN [threw |-> FALSE, value |-> SentinelTime] ELSE r

(* ------------------------------------------------- ui.js: the search scan *)
\* utcHours + city.lon/15, then the two single corrections (minutes).
SolarMinutesNoWrap(utc, lon) == utc + lon

SolarMinutes(utc, lon) ==
    LET s0 == utc + lon
        s1 == IF s0 < 0 THEN s0 + DayMinutes ELSE s0
        s2 == IF s1 >= DayMinutes THEN s1 - DayMinutes ELSE s1
    IN  s2

DiffNoWrap(solarMinutes, targetMinutes) == Abs(solarMinutes - targetMinutes)

Diff(solarMinutes, targetMinutes) ==
    LET d == Abs(solarMinutes - targetMinutes)
    IN  IF d > HalfDay THEN DayMinutes - d ELSE d

CityDiff(city, utc, targetMinutes) ==
    Diff(SolarMinutes(utc, city.lon), targetMinutes)

\* One iteration of the forEach callback: acc = [best, minDiff], best the
\* 1-based index of bestMatch in the dataset (0 = null).
ScanStepLastWins(acc, i, d) ==
    IF d <= acc.minDiff THEN [best |-> i, minDiff |-> d] ELSE acc

ScanStep(acc, i, d) ==
    IF d < acc.minDiff THEN [best |-> i, minDiff |-> d] ELSE acc

\* The whole forEach: reads[i] is the UTC minute that the i-th callback's
\* own `new Date()` returned.
RECURSIVE ScanFrom(_, _, _, _, _)
ScanFrom(acc, i, cs, reads, targetMinutes) ==
    IF i > Len(cs) THEN acc
    ELSE ScanFrom(ScanStep(acc, i, CityDiff(cs[i], reads[i], targetMinutes)),
                  i + 1, cs, reads, targetMinutes)

\* A scan that lets the city shown in the info panel lose ties.
RECURSIVE ScanFromAvoidCurrent(_, _, _, _, _)
ScanFromAvoidCurrent(acc, i, cs, reads, targetMinutes) ==
    IF i > Len(cs) THEN acc
    ELSE LET d == CityDiff(cs[i], reads[i], targetMinutes)
             step == IF acc.best # 0 /\ Some(cs[acc.best]) = currentCity
                     THEN ScanStepLastWins(acc, i, d)
                     ELSE ScanStep(acc, i, d)
         IN  ScanFromAvoidCurrent(step, i + 1, cs, reads, targetMinutes)

ScanAvoidCurrent(cs, reads, targetMinutes) ==
    ScanFromAvoidCurrent([best |-> 0, minDiff |-> Infinity], 1, cs, reads,
                         targetMinutes)

Scan(cs, reads, targetMinutes) ==
    ScanFrom([best |-> 0, minDiff |-> Infinity], 1, cs, reads, targetMinutes)

AcceptAlways(acc) == acc.best # 0

\* if (bestMatch && minDiff <= 30)
Accept(acc) == acc.best # 0 /\ acc.minDiff <= MatchWindow

(* --------------------------------------------- ui.js: the fallback branch *)
FallbackOffsetNoWrap(targetLocal, currentUtc) == targetLocal - currentUtc

\* offset = targetLocalHours - currentUtcHours, wrapped once each way.
FallbackOffset(targetLocal, currentUtc) ==
    LET o0 == targetLocal - currentUtc
        o1 == IF o0 < -HalfDay THEN o0 + DayMinutes ELSE o0
        o2 == IF o1 > HalfDay THEN o1 - DayMinutes ELSE o1
    IN  o2

\* targetLon = offset * 15, then the 180-normalisation (quarter-degrees:
\* offset hours * 15 degrees = offset minutes quarter-degrees).
FallbackLon(offset) ==
    LET l0 == offset
        l1 == IF l0 > Deg(180) THEN l0 - Deg(360) ELSE l0
        l2 == IF l1 < Deg(-180) THEN l1 + Deg(360) ELSE l1
    IN  l2

Succ(t) == (t + 1) % DayMinutes

\* Number.prototype.toFixed(0) of a longitude held in quarter-degrees:
\* whole degrees, halves away from zero.
ToFixed0(q) == IF q < 0 THEN -((-q + 2) \div 4) ELSE (q + 2) \div 4

NoSearch ==
    [kind |-> "none", target |-> -1, cities |-> <<>>, reads |-> <<>>,
     diffs |-> <<>>, best |-> 0, minDiff |-> Infinity, fbRead |-> -1,
     offset |-> 0, targetLon |-> 0, repeat |-> FALSE,
     panel |-> [panelHidden |-> TRUE, currentCity |-> None]]

(* ------------------------------------------------------------------ Init *)
IdleConv ==
    /\ csvLines = <<>> /\ lineIdx = 1 /\ cities = <<>> /\ convState = "idle"
IdleEph ==
    ephIn = <<0, 0>>
    /\ ephOut = [kind |-> "idle", n |-> <<0, 0>>, angles |-> [L |-> <<0, 0, 0>>]]
IdleNorm == normIn = <<"idle", 0, 0>> /\ normOut = 0 /\ IdleEph
\* A globe whose allCities starts as an empty list instead of undefined.
InitAppEmptyList(times) ==
    /\ now \in times
    /\ loadState = "fetching" /\ allCities = Some(<<>>)
    /\ panelHidden = TRUE /\ cityEl = "" /\ timeEl = <<>> /\ metaEl = <<>>
    /\ currentCity = None
    /\ toast = <<>> /\ lastPin = None
    /\ autoRotate = TRUE /\ isAnimating = FALSE
    /\ autoRotateRestorer = 0 /\ restoreTimers = {}
    /\ nextTimerId = 1 /\ animElapsed = 0
    /\ targetPosition = <<0, 0>>
    /\ uncaught = FALSE /\ lastSearch = NoSearch

InitApp(times) ==
    /\ now \in times
    /\ loadState = "fetching" /\ allCities = None
    /\ panelHidden = TRUE /\ cityEl = "" /\ timeEl = <<>> /\ metaEl = <<>>
    /\ currentCity = None
    /\ toast = <<>> /\ lastPin = None
    /\ autoRotate = TRUE /\ isAnimating = FALSE
    /\ autoRotateRestorer = 0 /\ restoreTimers = {}
    /\ nextTimerId = 1 /\ animElapsed = 0
    /\ targetPosition = <<0, 0>>
    /\ uncaught = FALSE /\ lastSearch = NoSearch

\* After `new Globe(...)` has run up to its first await and `new UI(globe)`
\* has returned: controls exist with autoRotate on, the fetch is in flight.
Init == InitApp(StartTimes) /\ IdleConv /\ IdleNorm

(* ------------------------------------------------------- globe.js pieces *)
\* Globe.init from `await fetch` on: the dataset arrives whole.
FetchResolve(ds) ==
    /\ loadState = "fetching"
    /\ allCities' = Some(ds)
    /\ loadState' = "loaded"
    /\ UNCHANGED <<now, uiVars, toast, lastPin, globeVars, uncaught,
                   lastSearch, convVars, normVars>>

\* fetch rejects or response.json() rejects: init's promise rejects, nothing
\* after the await runs.
FetchReject ==
    /\ loadState = "fetching"
    /\ loadState' = "failed"
    /\ UNCHANGED <<now, allCities, uiVars, toast, lastPin, globeVars,
                   uncaught, lastSearch, convVars, normVars>>

\* cancelAutoRotateRestore as the pair <<autoRotateRestorer, restoreTimers>>
\* it leaves.
cancelAutoRotateRestore ==
    IF autoRotateRestorer # 0
    THEN <<0, {t \in restoreTimers : t[1] # autoRotateRestorer}>>
    ELSE <<autoRotateRestorer, restoreTimers>>

\* A flyTo that leaves a pending restore timer alone.
flyToNoCancel(lat, lon) ==
    /\ UNCHANGED <<autoRotateRestorer, restoreTimers, nextTimerId>>
    /\ autoRotate' = FALSE
    /\ isAnimating' = TRUE
    /\ targetPosition' = <<lat, lon>>
    /\ animElapsed' = 0

\* flyTo(lat, lon) on the globe variables; animationStartTime = Date.now().
flyTo(lat, lon) ==
    /\ autoRotateRestorer' = cancelAutoRotateRestore[1]
    /\ restoreTimers' = cancelAutoRotateRestore[2]
    /\ autoRotate' = FALSE
    /\ isAnimating' = TRUE
    /\ targetPosition' = <<lat, lon>>
    /\ animElapsed' = 0
    /\ UNCHANGED nextTimerId

\* addTemporaryPin(lat, lon): a pin sprite at that place joins the scene
\* (its removal 6000 ms later is not part of the model).
addTemporaryPin(lat, lon) == lastPin' = Some(<<lat, lon>>)

(* ---------------------------------------------------------- ui.js pieces *)
\* updateInfoPanel(cityData) as the values it leaves in the panel; threw
\* when getLocalTime raised (nothing after that line has run).
updateInfoPanel(cityData, t) ==
    IF ~IsSome(cityData)
    THEN [panelHidden |-> TRUE, cityEl |-> cityEl, timeEl |-> timeEl,
          metaEl |-> metaEl, currentCity |-> None, threw |-> FALSE]
    ELSE LET c == Val(cityData)
             civil == getLocalTime(c.timezone, t)
         IN  IF civil.threw
             THEN [panelHidden |-> FALSE, cityEl |-> c.name, timeEl |-> timeEl,
                   metaEl |-> metaEl, currentCity |-> currentCity,
                   threw |-> TRUE]
             ELSE [panelHidden |-> FALSE, cityEl |-> c.name,
                   timeEl |-> civil.value,
                   metaEl |-> <<c.timezone, c.lat, c.lon>>,
                   currentCity |-> cityData, threw |-> FALSE]

SetPanel(p) ==
    /\ panelHidden' = p.panelHidden
    /\ cityEl' = p.cityEl
    /\ timeEl' = p.timeEl
    /\ metaEl' = p.metaEl
    /\ currentCity' = p.currentCity

\* The clock advancing on its own.
Tick ==
    /\ now \in TickFrom
    /\ now' = Succ(now)
    /\ UNCHANGED <<loadState, allCities, uiVars, toast, lastPin, globeVars,
                   uncaught, lastSearch, convVars, normVars>>

\* The setInterval callback of startClockLoop.
startClockLoop ==
    /\ IF IsSome(currentCity)
       THEN LET civil == getLocalTime(Val(currentCity).timezone, now)
            IN  /\ uncaught' = civil.threw
                /\ timeEl' = IF civil.threw THEN timeEl ELSE civil.value
       ELSE /\ uncaught' = FALSE
            /\ timeEl' = timeEl
    /\ UNCHANGED <<now, loadState, allCities, panelHidden, cityEl,
                   metaEl, currentCity, toast, lastPin, globeVars, lastSearch,
                   convVars, normVars>>

\* main.js onCityHover, called by Globe.onMouseMove (registered once the
\* dataset is loaded): a marker's city, or null when no marker is hit.
onCityHover(cityData) ==
    /\ loadState = "loaded"
    /\ LET p == updateInfoPanel(cityData, now)
       IN  SetPanel(p) /\ uncaught' = p.threw
    /\ UNCHANGED <<now, loadState, allCities, toast, lastPin, globeVars,
                   lastSearch, convVars, normVars>>

Hover ==
    /\ IsSome(allCities)
    /\ \/ onCityHover(None)
       \/ \E i \in 1..Len(Val(allCities)) :
              onCityHover(Some(Val(allCities)[i]))

(* ---------------------------------------------------- ui.js: handleSearch *)
\* The UTC minute each `new Date()` of one handleSearch run returns: the
\* clock crosses a minute boundary right after the tickAt-th callback of the
\* forEach (tickAt = n: between the scan and the fallback's own read;
\* tickAt = n + 1: not during this run).
ScanReads(n, tickAt) == [i \in 1..n |-> IF i > tickAt THEN Succ(now) ELSE now]
LastRead(n, tickAt) == IF tickAt <= n THEN Succ(now) ELSE now

\* The diff each callback of the forEach computed.
ScanDiffs(cs, reads, targetMinutes) ==
    [i \in 1..Len(cs) |-> CityDiff(cs[i], reads[i], targetMinutes)]

\* Every `new Date()` of the logged run returned the minute T.
ReadAt(ls, T) ==
    /\ \A i \in 1..Len(ls.reads) : ls.reads[i] = T
    /\ ls.fbRead \in {-1, T}

\* The log of one run; repeat: the run before it had the same target and
\* dataset and read the same single instant; panel: the info panel as the
\* run's updateInfoPanel call left it.
SearchLog(k, tm, cs, reads, acc, fb, off, tl) ==
    [kind |-> k, target |-> tm, cities |-> cs, reads |-> reads,
     diffs |-> ScanDiffs(cs, reads, tm),
     best |-> acc.best, minDiff |-> acc.minDiff, fbRead |-> fb,
     offset |-> off, targetLon |-> tl,
     repeat |-> /\ lastSearch.kind \in {"match", "fallback"}
                /\ lastSearch.target = tm
                /\ lastSearch.cities = cs
                /\ ReadAt(lastSearch, now)
                /\ \A i \in 1..Len(reads) : reads[i] = now
                /\ fb \in {-1, now},
     panel |-> [panelHidden |-> panelHidden', currentCity |-> currentCity']]

\* if (!timeVal) return;
SearchNoInput ==
    UNCHANGED <<now, uiVars, toast, lastPin, globeVars, uncaught,
                lastSearch>>

\* if (!this.globe.allCities) { showToast(...); return; }
SearchWhileLoading(h, m) ==
    /\ ~IsSome(allCities)
    /\ toast' = <<"SYSTEM LOADING DATA... PLEASE WAIT">>
    /\ lastSearch' = [NoSearch EXCEPT !.kind = "loading", !.target = h * 60 + m]
    /\ uncaught' = FALSE
    /\ UNCHANGED <<now, uiVars, lastPin, globeVars>>

\* The match branch: updateInfoPanel, flyTo, addTemporaryPin, showToast.
ReportMatch(bestMatch, end) ==
    \E p \in {updateInfoPanel(Some(bestMatch), end)} :
        /\ SetPanel(p)
        /\ uncaught' = p.threw
        /\ IF p.threw
           THEN UNCHANGED <<toast, lastPin, globeVars>>
           ELSE /\ flyTo(bestMatch.lat, bestMatch.lon)
                /\ addTemporaryPin(bestMatch.lat, bestMatch.lon)
                /\ toast' = <<"FOUND", bestMatch.name>>

\* The fallback branch, for the longitude it computed.
ReportFallback(targetLon) ==
    /\ SetPanel(updateInfoPanel(None, now))
    /\ uncaught' = FALSE
    /\ flyTo(0, targetLon)
    /\ addTemporaryPin(0, targetLon)
    /\ toast' = <<"NO CITY FOUND", ToFixed0(targetLon)>>

SearchLoaded(h, m, tickAt) ==
    /\ IsSome(allCities)
    /\ tickAt \in 1..(Len(Val(allCities)) + 1)
    /\ tickAt <= Len(Val(allCities)) => now \in TickFrom
    /\ LET cs == Val(allCities)
           n == Len(cs)
           targetMinutes == h * 60 + m
           end == LastRead(n, tickAt)
       IN  \E reads \in {ScanReads(n, tickAt)} :
           \E acc \in {Scan(cs, reads, targetMinutes)} :
               /\ now' = end
               /\ IF Accept(acc)
                  THEN /\ ReportMatch(cs[acc.best], end)
                       /\ lastSearch' = SearchLog("match", targetMinutes, cs,
                                                  reads, acc, -1, 0, 0)
                  ELSE \E offset \in {FallbackOffset(targetMinutes, end)} :
                       \E targetLon \in {FallbackLon(offset)} :
                           /\ ReportFallback(targetLon)
                           /\ lastSearch' = SearchLog("fallback", targetMinutes,
                                                      cs, reads, acc, end,
                                                      offset, targetLon)

\* The click / Enter handler, with the value of the time input.
handleSearch ==
    /\ \/ SearchNoInput
       \/ \E tv \in TimeInputs : SearchWhileLoading(tv[1], tv[2])
       \/ \E tv \in TimeInputs : \E tickAt \in 1..(MaxCities + 1) :
              SearchLoaded(tv[1], tv[2], tickAt)
    /\ UNCHANGED <<loadState, allCities, convVars, normVars>>

Next ==
    \/ \E ds \in Datasets : FetchResolve(ds)
    \/ FetchReject
    \/ Tick
    \/ startClockLoop
    \/ Hover
    \/ handleSearch

Spec == Init /\ [][Next]_vars

(***************************************************************************)
(* The fly-to animation of globe.js (src/unnamed/part_003): animation      *)
(* frames, the auto-rotate restore timer and the 'start' event of the      *)
(* orbit controls, with the searches that call flyTo.  Time is the         *)
(* milliseconds since animationStartTime and the milliseconds each pending *)
(* timer has left.                                                         *)
(***************************************************************************)
\* The time that passes between two steps of the model.
TimeStep == AnimationDuration \div 2

\* Datasets the globe is flown over.
GlobeDatasets == { ds \in Datasets : Len(ds) <= 1 }

\* scheduleAutoRotateRestore(): cancel, then a new timer of 5000 ms.
scheduleAutoRotateRestore ==
    /\ autoRotateRestorer' = nextTimerId
    /\ restoreTimers' =
           cancelAutoRotateRestore[2] \cup { <<nextTimerId, RestoreDelay>> }
    /\ nextTimerId' = nextTimerId + 1

\* One call of animate() by requestAnimationFrame (first called at the end
\* of init): the frame that finds progress >= 1 ends the animation; camera,
\* controls.update() and rendering are not part of the model.
AnimateFrame ==
    /\ loadState = "loaded"
    /\ IF isAnimating /\ animElapsed >= AnimationDuration
       THEN /\ isAnimating' = FALSE
            /\ scheduleAutoRotateRestore
       ELSE UNCHANGED <<isAnimating, autoRotateRestorer, restoreTimers,
                        nextTimerId>>
    /\ UNCHANGED <<now, loadState, allCities, uiVars, toast, lastPin,
                   autoRotate, animElapsed, targetPosition, uncaught,
                   lastSearch, convVars, normVars>>

\* The 'start' listener of the controls (the user begins to drag or zoom).
ControlsStart ==
    /\ loadState = "loaded"
    /\ autoRotateRestorer' = cancelAutoRotateRestore[1]
    /\ restoreTimers' = cancelAutoRotateRestore[2]
    /\ UNCHANGED <<now, loadState, allCities, uiVars, toast, lastPin,
                   autoRotate, isAnimating, nextTimerId, animElapsed,
                   targetPosition, uncaught, lastSearch, convVars, normVars>>

\* The callback of a restore timer whose delay has passed.
RestoreTimerFire ==
    \E t \in restoreTimers :
        /\ t[2] = 0
        /\ autoRotate' = TRUE
        /\ restoreTimers' = restoreTimers \ {t}
        /\ UNCHANGED <<now, loadState, allCities, uiVars, toast, lastPin,
                       isAnimating, autoRotateRestorer, nextTimerId,
                       animElapsed, targetPosition, uncaught, lastSearch,
                       convVars, normVars>>

\* Date.now() moves on by TimeStep.
AdvanceTime ==
    /\ animElapsed' = IF isAnimating
                      THEN Min(animElapsed + TimeStep, AnimationDuration)
                      ELSE animElapsed
    /\ restoreTimers' =
           { <<t[1], IF t[2] > TimeStep THEN t[2] - TimeStep ELSE 0>> :
               t \in restoreTimers }
    /\ UNCHANGED <<now, loadState, allCities, uiVars, toast, lastPin,
                   autoRotate, isAnimating, autoRotateRestorer, nextTimerId,
                   targetPosition, uncaught, lastSearch, convVars, normVars>>

\* A search, while the behaviour has timer ids left.
GlobeSearch == nextTimerId <= MaxTimers /\ handleSearch

NextGlobe ==
    \/ \E ds \in GlobeDatasets : FetchResolve(ds)
    \/ FetchReject
    \/ GlobeSearch
    \/ AnimateFrame
    \/ ControlsStart
    \/ RestoreTimerFire
    \/ AdvanceTime

SpecGlobe == Init /\ [][NextGlobe]_vars

\* Frames keep coming, due timers fire and time passes.
SpecGlobeFair ==
    /\ SpecGlobe
    /\ WF_vars(AnimateFrame)
    /\ WF_vars(RestoreTimerFire)
    /\ WF_vars(AdvanceTime)

(***************************************************************************)
(* The ingestion script (src/unnamed/part_000).  A line of the CSV file is *)
(* the sequence of its cells after trim() and split(','); a cell is a      *)
(* sequence of characters; coordinates are whole degrees.                  *)
(***************************************************************************)
DigitChars == {"0", "1", "2", "3", "4", "5", "6", "7", "8", "9"}
DigitVal(c) ==
    CASE c = "0" -> 0 [] c = "1" -> 1 [] c = "2" -> 2 [] c = "3" -> 3
      [] c = "4" -> 4 [] c = "5" -> 5 [] c = "6" -> 6 [] c = "7" -> 7
      [] c = "8" -> 8 [] c = "9" -> 9

NaN == [nan |-> TRUE, val |-> 0]
Num(v) == [nan |-> FALSE, val |-> v]

RECURSIVE SkipSpaces(_)
SkipSpaces(s) ==
    IF s # <<>> /\ Head(s) = " " THEN SkipSpaces(Tail(s)) ELSE s

\* The longest run of digits s starts with: its value and its length.
RECURSIVE DigitRun(_, _, _)
DigitRun(s, v, k) ==
    IF s # <<>> /\ Head(s) \in DigitChars
    THEN DigitRun(Tail(s), 10 * v + DigitVal(Head(s)), k + 1)
    ELSE [val |-> v, count |-> k]

\* parseFloat on cells of spaces, '-', digits and other characters: leading
\* white space skipped, an optional sign, the longest digit prefix; NaN when
\* there is no digit there; whatever follows the digits is ignored.
parseFloat(cell) ==
    LET s == SkipSpaces(cell)
        neg == s # <<>> /\ Head(s) = "-"
        body == IF neg THEN Tail(s) ELSE s
        r == DigitRun(body, 0, 0)
    IN  IF r.count = 0 THEN NaN
        ELSE Num(IF neg THEN -r.val ELSE r.val)

\* cols[0].replace(/"/g, '')
StripQuotes(cell) == SelectSeq(cell, LAMBDA c : c # "\"")

\* tz-lookup's tz(lat, lon): a RangeError for coordinates off the globe,
\* otherwise the IANA id of the place (here one id per hemisphere).
tz(lat, lon) ==
    IF lat \in -90..90 /\ lon \in -180..180
    THEN [threw |-> FALSE,
          value |-> IF lon < 0 THEN <<"America/Lima">> ELSE <<"Asia/Tehran">>]
    ELSE [threw |-> TRUE, value |-> <<>>]

GeometricOffsetFloor(lon) == lon \div 15

\* Math.round(lon / 15): the nearest integer, halves towards +Infinity.
GeometricOffset(lon) == (2 * lon + 15) \div 30

\* `Etc/GMT${offset > 0 ? '-' : '+'}${abs}` as its three parts.
GeometricZone(offset) ==
    <<"Etc/GMT", IF offset > 0 THEN "-" ELSE "+", Abs(offset)>>

\* The try / catch around tz(lat, lon).
timezoneId(lat, lon) ==
    LET r == tz(lat, lon)
    IN  IF r.threw THEN GeometricZone(GeometricOffset(lon)) ELSE r.value

KeepRecordEither(lat, lon) == ~lat.nan \/ ~lon.nan

\* if (!isNaN(lat) && !isNaN(lon))
KeepRecord(lat, lon) == ~lat.nan /\ ~lon.nan

IsBlank(line) == line = << <<>> >>

\* The cells the modelled files are made of.
NameCell == <<"\"", "A", "\"">>
LatCells == { <<"1", "5">>, <<"9", "5">>, <<"x">> }
LonCells == { <<"1", "0">>, <<"-", "7">>, <<"1", "8", "0">>,
              <<"-", "1", "8", "0">>, <<"x">>, <<"7", "x">> }
CsvLinePool ==
    { <<NameCell, la, lo>> : la \in LatCells, lo \in LonCells }
        \cup { <<NameCell, <<"1", "5">>>>, << <<>> >> }
HeaderLine == << <<"c", "i", "t", "y">>, <<"l", "a", "t">>, <<"l", "n", "g">> >>

\* Before the loop: the file read and split, lines[0] the header, i = 1
\* (lineIdx counts from 1, so the first data line is lineIdx = 2).
InitConvert ==
    /\ csvLines \in { <<HeaderLine>> \o f : f \in SeqsUpTo(CsvLinePool, MaxLines) }
    /\ lineIdx = 2 /\ cities = <<>> /\ convState = "running"
    /\ InitApp({0}) /\ IdleNorm

appVars == <<now, loadState, allCities, uiVars, toast, lastPin, globeVars,
             uncaught, lastSearch>>

\* One iteration of the for loop.  src (the index of the line the record
\* came from) is kept beside the record for the properties.
ConvertLine ==
    /\ convState = "running" /\ lineIdx <= Len(csvLines)
    /\ LET cols == csvLines[lineIdx]
           lat == parseFloat(cols[2])
           lon == parseFloat(cols[3])
       IN  cities' =
             IF IsBlank(cols) \/ Len(cols) < 3 THEN cities
             ELSE IF KeepRecord(lat, lon)
                  THEN Append(cities,
                              [name |-> StripQuotes(cols[1]),
                               lat |-> lat.val, lon |-> lon.val,
                               timezone |-> timezoneId(lat.val, lon.val),
                               src |-> lineIdx])
                  ELSE cities
    /\ lineIdx' = lineIdx + 1
    /\ UNCHANGED <<csvLines, convState, appVars, normVars>>

\* fs.writeFileSync('public/cities.json', JSON.stringify(cities))
WriteCities ==
    /\ convState = "running" /\ lineIdx > Len(csvLines)
    /\ convState' = "written"
    /\ UNCHANGED <<csvLines, lineIdx, cities, appVars, normVars>>

NextConvert == ConvertLine \/ WriteCities

SpecConvert == InitConvert /\ [][NextConvert]_vars

(***************************************************************************)
(* The 180-normalisations of utils.js (src/unnamed/part_002), in whole     *)
(* degrees, and of the search fallback, in quarter-degrees.                *)
(***************************************************************************)
\* let eot = (L - alpha); if (eot > 180) eot -= 360; if (eot < -180) eot += 360;
EotAngle(L, alpha) ==
    LET e0 == L - alpha
        e1 == IF e0 > 180 THEN e0 - 360 ELSE e0
        e2 == IF e1 < -180 THEN e1 + 360 ELSE e1
    IN  e2

\* while (moonLon > 180) moonLon -= 360; while (moonLon < -180) moonLon += 360;
RECURSIVE WhileAbove(_)
WhileAbove(x) == IF x > 180 THEN WhileAbove(x - 360) ELSE x
RECURSIVE WhileBelow(_)
WhileBelow(x) == IF x < -180 THEN WhileBelow(x + 360) ELSE x
MoonLon(ra, gst) == WhileBelow(WhileAbove(ra - gst))

Angles360 == {d \in 0..359 : d % AngleStep = 0}          \* [0, 360)
AnglesRa == {d \in -180..180 : d % AngleStep = 0}        \* atan2: [-180, 180]
DayTimes == {m \in 0..(DayMinutes - 1) : m % (4 * AngleStep) = 0}

InitNorm ==
    /\ normIn = <<"idle", 0, 0>> /\ normOut = 0
    /\ InitApp({0}) /\ IdleConv /\ IdleEph

\* getSolarParameters, lines 59-61, for the L and alpha it computed.
NormalizeEot ==
    \E L \in Angles360, alpha \in Angles360 :
        /\ normIn' = <<"eot", L, alpha>>
        /\ normOut' = EotAngle(L, alpha)
        /\ UNCHANGED <<appVars, convVars, ephVars>>

\* getMoonPosition, lines 136-139, for the ra and gst it computed.
NormalizeMoonLon ==
    \E ra \in AnglesRa, gst \in Angles360 :
        /\ normIn' = <<"moonLon", ra, gst>>
        /\ normOut' = MoonLon(ra, gst)
        /\ UNCHANGED <<appVars, convVars, ephVars>>

\* handleSearch, lines 89-101, for a target and a UTC minute of day.
NormalizeTargetLon ==
    \E targetLocal \in DayTimes, currentUtc \in DayTimes :
        /\ normIn' = <<"targetLon", targetLocal, currentUtc>>
        /\ normOut' = FallbackLon(FallbackOffset(targetLocal, currentUtc))
        /\ UNCHANGED <<appVars, convVars, ephVars>>

\* UTC minutes of day and longitudes in [-180, 180] (quarter-degrees) the
\* scan's solar time is tried on, the ends of both ranges included.
ScanUtcTimes == DayTimes \cup {0, 1, DayMinutes - 1}
ScanLongitudes == { Deg(d) : d \in AnglesRa \cup {-180, 180} }

\* handleSearch, lines 62-68, for one city's longitude and one UTC reading.
NormalizeSolarMinutes ==
    \E utc \in ScanUtcTimes, lon \in ScanLongitudes :
        /\ normIn' = <<"solar", utc, lon>>
        /\ normOut' = SolarMinutes(utc, lon)
        /\ UNCHANGED <<appVars, convVars, ephVars>>

NextNorm ==
    \/ NormalizeEot
    \/ NormalizeMoonLon
    \/ NormalizeTargetLon
    \/ NormalizeSolarMinutes

SpecNorm == InitNorm /\ [][NextNorm]_vars

(***************************************************************************)
(* The ephemeris of utils.js (src/unnamed/part_002): Julian date, days     *)
(* since J2000 and the mean angles.                                        *)
(*                                                                         *)
(* An instant (Date.getTime()) is <<hd, ms>>: hd whole half-days since     *)
(* 1970-01-01T00:00Z (negative before it) and ms milliseconds into that    *)
(* half-day, getTime() = hd * 43200000 + ms.  A count of days (jd, n) has  *)
(* the same shape: hd half-days and ms / 86400000 of a day.                *)
(*                                                                         *)
(* An angle is a decimal <<w, f1, f2>> of value w + f1/10^7 + f2/10^14     *)
(* degrees with 0 <= f1, f2 < 10^7 (so a negative value has w < 0): every  *)
(* literal of the code and, at whole half-days, every product is exact.    *)
(***************************************************************************)
HalfDayMs == 86400000 \div 2

\* 2440587.5 and 2451545.0 days, in half-days.
JdUnixEpoch == 2 * 2440587 + 1
JdUnixEpochNoFraction == 2 * 2440587
J2000 == 2 * 2451545

getJulianDateNoFraction(date) == <<date[1] + JdUnixEpochNoFraction, date[2]>>

\* (date.getTime() / 86400000) + 2440587.5
getJulianDate(date) == <<date[1] + JdUnixEpoch, date[2]>>

\* const n = jd - 2451545.0
DaysSinceJ2000(jd) == <<jd[1] - J2000, jd[2]>>

\* getUTCHours() + getUTCMinutes() / 60 + getUTCSeconds() / 3600, times 15,
\* at an instant on a whole half-day: 00:00 or 12:00 UTC.
UtcHours15(date) == 15 * 12 * (date[1] % 2)

DecBase == 10 ^ 7
DecNorm(w, a, b) ==
    LET a1 == a + (b \div DecBase)
    IN  <<w + (a1 \div DecBase), a1 % DecBase, b % DecBase>>
DecAdd(x, y) == DecNorm(x[1] + y[1], x[2] + y[2], x[3] + y[3])
DecTimes(c, k) == DecNorm(c[1] * k, c[2] * k, c[3] * k)
DecHalf(x) ==
    LET a == x[2] + (x[1] % 2) * DecBase
        b == x[3] + (a % 2) * DecBase
    IN  <<x[1] \div 2, a \div 2, b \div 2>>

\* c * n for n a whole number of half-days (n[2] = 0).
TimesDays(c, n) == DecHalf(DecTimes(c, n[1]))

\* x % 360 of JavaScript: the remainder has the sign of x.
Rem360(x) ==
    LET m == x[1] % 360
    IN  IF x[1] >= 0 THEN <<m, x[2], x[3]>>
        ELSE IF m = 0 /\ x[2] = 0 /\ x[3] = 0 THEN <<0, 0, 0>>
        ELSE <<m - 360, x[2], x[3]>>

\* if (x < 0) x += 360
AddTurnIfNegative(x) == IF x[1] < 0 THEN <<x[1] + 360, x[2], x[3]>> ELSE x

\* let L = (280.460 + 0.9856474 * n) % 360; if (L < 0) L += 360;
SunMeanLongitude(n) ==
    AddTurnIfNegative(Rem360(DecAdd(<<280, 4600000, 0>>,
                                    TimesDays(<<0, 9856474, 0>>, n))))

\* let g = (357.528 + 0.9856003 * n) % 360; if (g < 0) g += 360;
SunMeanAnomaly(n) ==
    AddTurnIfNegative(Rem360(DecAdd(<<357, 5280000, 0>>,
                                    TimesDays(<<0, 9856003, 0>>, n))))

\* let L = (218.316 + 13.176396 * n) % 360;
MoonMeanLongitude(n) ==
    Rem360(DecAdd(<<218, 3160000, 0>>, TimesDays(<<13, 1763960, 0>>, n)))

\* let M = (134.963 + 13.064993 * n) % 360;
MoonMeanAnomaly(n) ==
    Rem360(DecAdd(<<134, 9630000, 0>>, TimesDays(<<13, 649930, 0>>, n)))

\* let F = (93.272 + 13.229350 * n) % 360;
MoonArgLatitude(n) ==
    Rem360(DecAdd(<<93, 2720000, 0>>, TimesDays(<<13, 2293500, 0>>, n)))

\* let gst = (100.46061837 + 0.9856473662862 * n + 15 * utcHours) % 360;
\* if (gst < 0) gst += 360;
GreenwichSiderealTime(n, date) ==
    AddTurnIfNegative(
        Rem360(DecAdd(DecAdd(<<100, 4606183, 7000000>>,
                             TimesDays(<<0, 9856473, 6628620>>, n)),
                      <<UtcHours15(date), 0, 0>>)))

\* Instants the calls are tried at: whole half-days within MaxDays of
\* 2000-01-01T12:00Z, and for the day count alone also the milliseconds
\* next to them and the Unix epoch.
EphInstants == { <<hd, 0>> : hd \in (J2000 - JdUnixEpoch - 2 * MaxDays)..
                                    (J2000 - JdUnixEpoch + 2 * MaxDays) }
DayCountInstants ==
    { <<d[1], ms>> : d \in EphInstants, ms \in {0, 1, HalfDayMs - 1} }
        \cup { <<-1, HalfDayMs - 1>>, <<0, 0>>, <<0, 1>> }

NoAngles == [L |-> <<0, 0, 0>>]
EphResult(k, n, a) == [kind |-> k, n |-> n, angles |-> a]

InitEph ==
    /\ ephIn = <<0, 0>> /\ ephOut = EphResult("idle", <<0, 0>>, NoAngles)
    /\ normIn = <<"idle", 0, 0>> /\ normOut = 0
    /\ InitApp({0}) /\ IdleConv

\* getSolarParameters, lines 32-33: the day count of any instant.
DayCount ==
    \E date \in DayCountInstants :
        /\ ephIn' = date
        /\ ephOut' = EphResult("n", DaysSinceJ2000(getJulianDate(date)), NoAngles)
        /\ UNCHANGED <<appVars, convVars, normIn, normOut>>

\* getSolarParameters(date), lines 32-41.
getSolarParameters ==
    \E date \in EphInstants :
        LET n == DaysSinceJ2000(getJulianDate(date))
        IN  /\ ephIn' = date
            /\ ephOut' = EphResult("sun", n,
                                   [L |-> SunMeanLongitude(n),
                                    g |-> SunMeanAnomaly(n)])
            /\ UNCHANGED <<appVars, convVars, normIn, normOut>>

\* getMoonPosition(), lines 101-111 and 132-134, now = date.
getMoonPosition ==
    \E date \in EphInstants :
        LET n == DaysSinceJ2000(getJulianDate(date))
        IN  /\ ephIn' = date
            /\ ephOut' = EphResult("moon", n,
                                   [L |-> MoonMeanLongitude(n),
                                    M |-> MoonMeanAnomaly(n),
                                    F |-> MoonArgLatitude(n),
                                    gst |-> GreenwichSiderealTime(n, date)])
            /\ UNCHANGED <<appVars, convVars, normIn, normOut>>

NextEph == DayCount \/ getSolarParameters \/ getMoonPosition

SpecEph == InitEph /\ [][NextEph]_vars

(***************************************************************************)
(* Reference definitions for the properties (not taken from the code).     *)
(***************************************************************************)
\* Mean solar minute of day at longitude lon when UTC is utc.
TrueSolar(utc, lon) == (utc + lon) % DayMinutes

\* Distance of two minutes of day on the 1440-minute clock.
CircDist(s, t) == Min(Abs(s - t), DayMinutes - Abs(s - t))

TrueDiff(city, utc, targetMinutes) ==
    CircDist(TrueSolar(utc, city.lon), targetMinutes)

Scanned(ls) == ls.kind \in {"match", "fallback"}

\* The scan of the logged run read one UTC minute throughout.
OneInstant(ls) == \A i, j \in 1..Len(ls.reads) : ls.reads[i] = ls.reads[j]

(* C1: for a non-empty dataset scanned at one UTC time of day, bestMatch is *)
(* a location whose circular solar-time difference to the target is the    *)
(* minimum over the dataset, and the first such location in dataset order. *)
C1_BestIsFirstMinimum ==
    (Scanned(lastSearch) /\ lastSearch.cities # <<>> /\ OneInstant(lastSearch))
    => LET cs == lastSearch.cities
           T == lastSearch.reads[1]
           d(i) == TrueDiff(cs[i], T, lastSearch.target)
           b == lastSearch.best
       IN  /\ b \in 1..Len(cs)
           /\ \A j \in 1..Len(cs) : d(b) <= d(j)
           /\ \A j \in 1..(b - 1) : d(j) > d(b)

\* Two different locations tie for the minimum and the first one was kept.
C1_Witness ==
    /\ Scanned(lastSearch) /\ Len(lastSearch.cities) = 2
    /\ OneInstant(lastSearch)
    /\ lastSearch.cities[1].lon # lastSearch.cities[2].lon
    /\ TrueDiff(lastSearch.cities[1], lastSearch.reads[1], lastSearch.target)
         = TrueDiff(lastSearch.cities[2], lastSearch.reads[1], lastSearch.target)
    /\ lastSearch.best = 1

\* What a run that reported city c left behind: the panel on c, the
\* camera flying to c, a pin on c.
ReportedCity(ls, c) ==
    /\ ls.panel.currentCity = Some(c) /\ ~ls.panel.panelHidden
    /\ targetPosition = <<c.lat, c.lon>>
    /\ lastPin = Some(<<c.lat, c.lon>>)

\* What a run that reported no city left behind.
ReportedNoCity(ls) ==
    /\ ls.panel.currentCity = None /\ ls.panel.panelHidden
    /\ targetPosition[1] = 0
    /\ lastPin = Some(targetPosition)

(* C2: a search reports a city match (info panel, flyTo and pin at the     *)
(* city) if and only if the dataset is non-empty and the minimum circular  *)
(* difference is <= 30 minutes; otherwise it reports no city (panel        *)
(* cleared, currentCity null) and flies to and pins a point at latitude 0. *)
C2_MatchIffWithinWindow ==
    (Scanned(lastSearch) /\ OneInstant(lastSearch))
    => LET ls == lastSearch
           cs == ls.cities
           d(i) == TrueDiff(cs[i], ls.reads[1], ls.target)
           within == cs # <<>> /\ \E i \in 1..Len(cs) : d(i) <= MatchWindow
       IN  IF within
           THEN /\ ls.kind = "match"
                /\ \E i \in 1..Len(cs) :
                      /\ \A j \in 1..Len(cs) : d(i) <= d(j)
                      /\ ReportedCity(ls, cs[i])
           ELSE /\ ls.kind = "fallback"
                /\ ReportedNoCity(ls)

\* A match exactly at the edge of the window was reported.
C2_Witness ==
    /\ lastSearch.kind = "match" /\ lastSearch.minDiff = MatchWindow
    /\ OneInstant(lastSearch)
    /\ ReportedCity(lastSearch, lastSearch.cities[lastSearch.best])
    /\ currentCity = lastSearch.panel.currentCity
    /\ cityEl = lastSearch.cities[lastSearch.best].name

(* C3: the diff the search computes for a location with longitude in       *)
(* [-180,180] and a target in [0,1440) is the circular distance            *)
(* min(|s-t|, 1440-|s-t|), lies in [0,720], and is right across midnight:  *)
(* with lon 0 and lon 180 at UTC 12:00, 12:00 selects lon 0 with minDiff 0 *)
(* and 00:05 selects lon 180 with minDiff 5.                               *)
C3_DiffIsCircular ==
    Scanned(lastSearch)
    => LET ls == lastSearch
           cs == ls.cities
       IN  /\ \A i \in 1..Len(cs) :
                 /\ ls.diffs[i] = TrueDiff(cs[i], ls.reads[i], ls.target)
                 /\ ls.diffs[i] \in 0..HalfDay
           /\ ( /\ Len(cs) = 2
                /\ {cs[1].lon, cs[2].lon} = {Deg(0), Deg(180)}
                /\ ls.reads = <<720, 720>> )
              => /\ ls.target = 720
                    => cs[ls.best].lon = Deg(0) /\ ls.minDiff = 0
                 /\ ls.target = 5
                    => cs[ls.best].lon = Deg(180) /\ ls.minDiff = 5

\* The 00:05 query of the example ran and wrapped past midnight.
C3_Witness ==
    /\ Scanned(lastSearch) /\ Len(lastSearch.cities) = 2
    /\ lastSearch.cities[1].lon = Deg(0)
    /\ lastSearch.cities[2].lon = Deg(180)
    /\ lastSearch.reads = <<720, 720>> /\ lastSearch.target = 5
    /\ lastSearch.best = 2 /\ lastSearch.minDiff = 5

(* C4: on the fallback path the reported longitude is congruent modulo 360 *)
(* degrees to 15 * (targetLocalHours - currentUtcHours), the hour offset   *)
(* being wrapped into [-12,12] first; 06:00 at UTC 00:00 gives offset 6    *)
(* and targetLon 90.                                                       *)
C4_FallbackLongitude ==
    lastSearch.kind = "fallback"
    => LET ls == lastSearch
       IN  /\ ls.offset \in (-HalfDay)..HalfDay
           /\ (ls.offset - (ls.target - ls.fbRead)) % DayMinutes = 0
           /\ (ls.targetLon - (ls.target - ls.fbRead)) % Deg(360) = 0
           /\ targetPosition = <<0, ls.targetLon>>
           /\ lastPin = Some(<<0, ls.targetLon>>)
           /\ (ls.target = 360 /\ ls.fbRead = 0)
              => ls.offset = 360 /\ ls.targetLon = Deg(90)

\* The 06:00 query at UTC 00:00 took the fallback path.
C4_Witness ==
    /\ lastSearch.kind = "fallback"
    /\ lastSearch.target = 360 /\ lastSearch.fbRead = 0
    /\ targetPosition = <<0, Deg(90)>>

(* C6: in every interleaving of the dataset load with search events, a   *)
(* search issued before globe.allCities is assigned performs no scan, no   *)
(* flyTo, no pin and no info-panel change (only the loading toast); a scan *)
(* only ever runs on the fully loaded dataset.                             *)
C6_NoSearchBeforeLoad ==
    [][ /\ loadState # "loaded"
           => /\ UNCHANGED <<uiVars, lastPin, globeVars>>
              /\ lastSearch'.kind \in {"none", "loading"}
              /\ toast' \in {toast, <<"SYSTEM LOADING DATA... PLEASE WAIT">>}
        /\ Scanned(lastSearch')
           => /\ loadState = "loaded" /\ IsSome(allCities)
              /\ lastSearch'.cities = Val(allCities) ]_vars

\* A search was issued while the fetch was still in flight.
C6_Witness ==
    /\ loadState = "fetching" /\ ~IsSome(allCities)
    /\ lastSearch.kind = "loading"
    /\ toast = <<"SYSTEM LOADING DATA... PLEASE WAIT">>
    /\ lastPin = None /\ ~isAnimating /\ autoRotate

\* The UTC minutes a logged run read.
InstantsOf(ls) ==
    {ls.reads[i] : i \in 1..Len(ls.reads)} \cup ({ls.fbRead} \ {-1})

Outcome(ls) ==
    <<ls.kind, ls.best, ls.minDiff, ls.targetLon, ls.panel.currentCity>>

IsTimeString(x) == Len(x) = 2 /\ x[1] \in 0..23 /\ x[2] \in 0..59

(* C8: getLocalTime never raises to its caller; for an unrecognized zone   *)
(* it returns "00:00:00", so updateInfoPanel and the clock loop always     *)
(* complete and the panel shows a time string for the current city.        *)
C8_LocalTimeNeverRaises ==
    /\ ~uncaught
    /\ IsSome(allCities)
       => \A i \in 1..Len(Val(allCities)) :
             LET r == getLocalTime(Val(allCities)[i].timezone, now)
             IN  /\ ~r.threw /\ IsTimeString(r.value)
                 /\ Val(allCities)[i].timezone \notin KnownZones
                    => r.value = SentinelTime
    /\ IsSome(currentCity)
       => /\ IsTimeString(timeEl)
          /\ Val(currentCity).timezone \notin KnownZones
             => timeEl = SentinelTime
          /\ Val(currentCity).timezone \in KnownZones
             => \E t \in {now, (now + DayMinutes - 1) % DayMinutes} :
                   timeEl = FormatTime((t + ZoneOffset(Val(currentCity).timezone))
                                       % DayMinutes)

\* The panel shows a city whose zone the database does not know.
C8_Witness ==
    /\ IsSome(currentCity)
    /\ Val(currentCity).timezone \notin KnownZones
    /\ timeEl = SentinelTime /\ ~panelHidden /\ ~uncaught

(* ------------------------------------------------- ingestion properties *)
\* The cell is a number and nothing else.
WholeNumber(cell) ==
    LET s == SkipSpaces(cell)
        body == IF s # <<>> /\ s[1] = "-" THEN Tail(s) ELSE s
    IN  body # <<>> /\ \A i \in 1..Len(body) : body[i] \in DigitChars

\* The cell begins, after white space, with a number.
StartsWithNumber(cell) ==
    LET s == SkipSpaces(cell)
    IN  /\ s # <<>>
        /\ \/ s[1] \in DigitChars
           \/ s[1] = "-" /\ Len(s) >= 2 /\ s[2] \in DigitChars

HasCoords(line) == ~IsBlank(line) /\ Len(line) >= 3

\* Indices (in input order) of the lines 2..upTo whose lat and lon are whole
\* numbers / begin with a number.
RECURSIVE NumericLines(_)
NumericLines(upTo) ==
    IF upTo < 2 THEN <<>>
    ELSE LET l == csvLines[upTo]
         IN  IF HasCoords(l) /\ WholeNumber(l[2]) /\ WholeNumber(l[3])
             THEN Append(NumericLines(upTo - 1), upTo)
             ELSE NumericLines(upTo - 1)

RECURSIVE ParsableLines(_)
ParsableLines(upTo) ==
    IF upTo < 2 THEN <<>>
    ELSE LET l == csvLines[upTo]
         IN  IF HasCoords(l) /\ StartsWithNumber(l[2]) /\ StartsWithNumber(l[3])
             THEN Append(ParsableLines(upTo - 1), upTo)
             ELSE ParsableLines(upTo - 1)

SrcOf(cs) == [i \in 1..Len(cs) |-> cs[i].src]

(* C9 as stated: every record whose latitude or longitude is not numeric   *)
(* is skipped and all other records are kept in input order.               *)
C9_SkipsNonNumeric ==
    convState # "idle" => SrcOf(cities) = NumericLines(lineIdx - 1)

(* C9 amended: a record is skipped exactly when parseFloat of its latitude *)
(* or longitude is NaN, i.e. the field does not begin with a number (or    *)
(* the line is blank or has fewer than three fields); every other record   *)
(* is kept, in input order, with the numbers its fields begin with; a      *)
(* skipped record neither ends the loop nor touches the records around it. *)
C9_SkipsUnparsable ==
    convState # "idle"
    => /\ SrcOf(cities) = ParsableLines(lineIdx - 1)
       /\ \A i \in 1..Len(cities) :
             /\ cities[i].lat \in Int /\ cities[i].lon \in Int
             /\ cities[i].name = <<"A">>
       /\ convState = "written" => lineIdx = Len(csvLines) + 1

\* A record with an unparsable longitude was skipped and the record after
\* it, whose longitude only begins with a number, was kept.
C9_Witness ==
    /\ convState = "written" /\ Len(csvLines) = 3
    /\ csvLines[2] = <<NameCell, <<"1", "5">>, <<"x">>>>
    /\ csvLines[3] = <<NameCell, <<"1", "5">>, <<"7", "x">>>>
    /\ Len(cities) = 1 /\ cities[1].src = 3 /\ cities[1].lon = 7

\* The record's zone came from the catch branch.
ResolutionFailed(c) == tz(c.lat, c.lon).threw

\* The k of an Etc/GMT id (POSIX sign: Etc/GMT-k is k hours east).
EtcHours(zone) == IF zone[2] = "-" THEN zone[3] ELSE -zone[3]

(* C10 as stated: when timezone resolution fails the id is Etc/GMT+-k with *)
(* k = floor(lon/15), for every longitude in [-180,180].                   *)
C10_FloorEstimate ==
    \A i \in 1..Len(cities) :
        (ResolutionFailed(cities[i]) /\ cities[i].lon \in -180..180)
        => /\ cities[i].timezone[1] = "Etc/GMT"
           /\ 15 * EtcHours(cities[i].timezone) <= cities[i].lon
           /\ cities[i].lon < 15 * EtcHours(cities[i].timezone) + 15

(* C10 amended: when timezone resolution fails the id is Etc/GMT-k for     *)
(* k > 0 and Etc/GMT+|k| otherwise, with k = lon/15 rounded to the nearest *)
(* integer (Math.round), for every longitude in [-180,180].                *)
C10_RoundedEstimate ==
    \A i \in 1..Len(cities) :
        (ResolutionFailed(cities[i]) /\ cities[i].lon \in -180..180)
        => LET z == cities[i].timezone
               k == EtcHours(z)
           IN  /\ Len(z) = 3 /\ z[1] = "Etc/GMT" /\ z[3] >= 0
               /\ z[2] = (IF k > 0 THEN "-" ELSE "+")
               /\ 30 * k - 15 <= 2 * cities[i].lon
               /\ 2 * cities[i].lon < 30 * k + 15

\* Resolution failed at longitude 10, where rounding and floor differ.
C10_Witness ==
    /\ cities # <<>>
    /\ ResolutionFailed(cities[1]) /\ cities[1].lon = 10
    /\ cities[1].timezone = <<"Etc/GMT", "-", 1>>

(* C5: every value a normalize180 step produces lies in (-180,180], never *)
(* exactly -180: the fallback longitude targetLon, the Equation-of-Time    *)
(* angle L - alpha for L, alpha in [0,360), and the Moon's sub-Earth       *)
(* longitude ra - gst for ra in [-180,180], gst in [0,360).                *)
C5_HalfOpenRange ==
    /\ normIn[1] \in {"eot", "moonLon"} => normOut > -180 /\ normOut <= 180
    /\ normIn[1] = "targetLon" => normOut > Deg(-180) /\ normOut <= Deg(180)

\* 2000-01-01T12:00:00Z as an instant: 946728000000 ms after the Unix
\* epoch, i.e. 946728000 s, in half-days of 43200 s.
Noon2000 == <<946728000 \div 43200, 946728000 % 43200>>

(* C11: for every instant, the days-since-epoch value n is JulianDate -     *)
(* 2451545.0 exactly: n * 86400000 = ms - 946728000000, so n = 0 at         *)
(* 2000-01-01T12:00:00 UTC and n is negative for every earlier instant.     *)
C11_DaysSinceEpoch ==
    ephOut.kind # "idle"
    => /\ ephOut.n = <<ephIn[1] - Noon2000[1], ephIn[2] - Noon2000[2]>>
       /\ ephIn = Noon2000 => ephOut.n = <<0, 0>>
       /\ ephIn[1] < Noon2000[1] => ephOut.n[1] < 0

\* The day count one millisecond before the epoch: negative, -1 ms.
C11_Witness ==
    /\ ephOut.kind = "n"
    /\ ephIn = <<Noon2000[1] - 1, HalfDayMs - 1>>
    /\ ephOut.n = <<-1, HalfDayMs - 1>>

\* A decimal angle in [0, 360).
InTurn(x) == x[1] \in 0..359 /\ x[2] \in 0..(DecBase - 1) /\ x[3] \in 0..(DecBase - 1)

(* C13: every angle defined through normalize360 is in [0,360) at every    *)
(* instant, instants before J2000 (negative n) included: the Sun's mean    *)
(* longitude L and mean anomaly g, the Moon's mean longitude, mean anomaly *)
(* and argument of latitude, and the Greenwich Sidereal Time.              *)
C13_Normalize360Range ==
    /\ ephOut.kind = "sun"
       => InTurn(ephOut.angles.L) /\ InTurn(ephOut.angles.g)
    /\ ephOut.kind = "moon"
       => /\ InTurn(ephOut.angles.L) /\ InTurn(ephOut.angles.M)
          /\ InTurn(ephOut.angles.F) /\ InTurn(ephOut.angles.gst)

(* C12: for every longitude in [-180,180] and every UTC time of day the   *)
(* solar minutes-of-day of the search scan lies in [0,1440): the single    *)
(* add-24 / subtract-24 correction brings utc + lon/15 into the day.       *)
C12_SolarMinutesInDay ==
    normIn[1] = "solar"
    => /\ normOut \in 0..(DayMinutes - 1)
       /\ normOut = TrueSolar(normIn[2], normIn[3])

\* 23:59 UTC at longitude 180: 35:59 before the correction, 11:59 after.
C12_Witness ==
    /\ normIn = <<"solar", DayMinutes - 1, Deg(180)>>
    /\ normOut = HalfDay - 1

\* The UTC minutes the `new Date()` calls of the logged run returned.
InstantsRead(ls) ==
    { ls.reads[i] : i \in 1..Len(ls.reads) }
        \cup (IF ls.fbRead = -1 THEN {} ELSE {ls.fbRead})

(* C14: a single search derives all of its results from one instant: even *)
(* if the clock advances while it runs, every location's solar minutes in  *)
(* the scan and the UTC reference of the fallback offset come from the     *)
(* same UTC reading.                                                       *)
C14_SingleInstant ==
    Scanned(lastSearch) => Cardinality(InstantsRead(lastSearch)) <= 1

(* C15: under every interleaving of flyTo calls, animation frames,        *)
(* 'start' events of the controls and restore-timer firings, auto-rotate   *)
(* is off while a fly-to animation is in progress, and at most one restore *)
(* timer is pending.                                                       *)
C15_NoRotateWhileFlying ==
    /\ isAnimating => ~autoRotate
    /\ Cardinality(restoreTimers) <= 1

\* A flight in progress that was started after a restore timer had been set.
C15_Witness ==
    /\ isAnimating /\ ~autoRotate
    /\ nextTimerId > 1 /\ restoreTimers = {}

(* C16: after a fly-to animation has completed, and unless a further flyTo *)
(* is issued, controls.autoRotate eventually becomes true again (animation *)
(* frames and timers scheduled fairly), whatever 'start' events follow.    *)
C16_AutoRotateRestored ==
    (~isAnimating /\ ~autoRotate) ~> (autoRotate \/ isAnimating)

====
